---- MODULE Spec2Model ----
(***************************************************************************)
(* Navigation-menu visual (src/src/visual.ts): the filter store built from *)
(* a categorical data view, the tri-state selection of hierarchy nodes,    *)
(* and what is submitted to the host's selection manager.                  *)
(*                                                                         *)
(* Strings are sequences of one-character strings, so that split('.') and  *)
(* String(value) are computed.  An optional value (a JavaScript value that *)
(* may be undefined) is a sequence of length 0 or 1.                       *)
(***************************************************************************)
EXTENDS Integers, Sequences, FiniteSets, TLC

VARIABLES
    filterCategories,   \* Visual.filterCategories: FilterCategory[]
    expandedNodes,      \* Visual.expandedNodes: Map<string, Set<string>>
    isMenuOpen,         \* Visual.isMenuOpen
    menuPanel,          \* Visual.menuPanel: its class list
    overlay,            \* Visual.overlay: its class list
    burgerButton,       \* Visual.burgerButton: its class list
    selectionManager,   \* the host's selection manager: last call and the ids it holds
    dataView,           \* options.dataViews?.[0]: the data view the host holds
    lastOp,             \* history: the handler that ran last and its arguments
    keptCollapsed,      \* history: the names of the groups whose last header click
                        \* collapsed them
    clearedSince        \* history: the categories whose Clear button was clicked
                        \* since the last update or toggle

vars == <<filterCategories, expandedNodes, isMenuOpen, menuPanel, overlay, burgerButton,
          selectionManager, dataView, lastOp, keptCollapsed, clearedSince>>

-----------------------------------------------------------------------------
(* Optional values and strings *)

None == <<>>
Some(x) == <<x>>
IsSome(o) == Len(o) = 1

\* JavaScript truthiness of an optional string: undefined and "" are falsy.
Truthy(o) == Len(o) = 1 /\ Len(o[1]) > 0

Range(s) == {s[i] : i \in 1..Len(s)}

Blank == <<"(", "B", "l", "a", "n", "k", ")">>

DigitChar(d) == <<"0", "1", "2", "3", "4", "5", "6", "7", "8", "9">>[d + 1]

RECURSIVE Digits(_)
Digits(n) == IF n < 10 THEN <<DigitChar(n)>> ELSE Digits(n \div 10) \o <<DigitChar(n % 10)>>

\* String(value) for a string or a non-negative integer cell.
StringOf(value) == IF value.t = "number" THEN Digits(value.v) ELSE value.v

\* String(value) with no null guard: a null cell reads "null".
StringValueUnguarded(value) ==
    IF value.t = "null" THEN <<"n", "u", "l", "l">> ELSE StringOf(value)

\* value != null ? String(value) : "(Blank)"
StringValue(value) == IF value.t = "null" THEN Blank ELSE StringOf(value)

\* category.values[index] for a 0-based index: undefined past the end.
ValueAt(category, index) ==
    IF index + 1 <= Len(category.values) THEN category.values[index + 1]
    ELSE [t |-> "null", v |-> <<>>]

\* s.split('.')[0]
SplitFirst(s) ==
    LET dots == {i \in 1..Len(s) : s[i] = "."}
    IN  IF dots = {} THEN s
        ELSE SubSeq(s, 1, (CHOOSE i \in dots : \A j \in dots : i <= j) - 1)

-----------------------------------------------------------------------------
(* processData: grouping of the fields *)

\* A grouping that compares the whole queryName with the base name.
RelatedCategoriesByQueryName(categories, baseName) ==
    SelectSeq([i \in 1..Len(categories) |-> i],
              LAMBDA i : /\ Truthy(categories[i].source.queryName)
                         /\ categories[i].source.queryName[1] = baseName)

\* The indices (in field order) of the categories whose queryName has this base name.
RelatedCategories(categories, baseName) ==
    SelectSeq([i \in 1..Len(categories) |-> i],
              LAMBDA i : /\ Truthy(categories[i].source.queryName)
                         /\ SplitFirst(categories[i].source.queryName[1]) = baseName)

\* displayName?.split('.')[0] || baseName
HierarchyName(cat, baseName) ==
    IF IsSome(cat.source.displayName) /\ Len(SplitFirst(cat.source.displayName[1])) > 0
    THEN SplitFirst(cat.source.displayName[1])
    ELSE baseName

\* categories.forEach((cat, idx) => ...) from idx on.  An item's categories are
\* indices into the field list; a single item holds its one category.
RECURSIVE CategoryOrder(_, _, _, _)
CategoryOrder(categories, idx, processedIndices, categoryOrder) ==
    IF idx > Len(categories) THEN categoryOrder
    ELSE IF idx \in processedIndices
    THEN CategoryOrder(categories, idx + 1, processedIndices, categoryOrder)
    ELSE
        LET cat == categories[idx]
            single == [type |-> "single", name |-> cat.source.displayName,
                       index |-> idx - 1, categories |-> <<idx>>]
        IN  IF ~Truthy(cat.source.queryName)
            THEN CategoryOrder(categories, idx + 1, processedIndices \cup {idx},
                               Append(categoryOrder, single))
            ELSE
                LET baseName == SplitFirst(cat.source.queryName[1])
                    relatedCategories == RelatedCategories(categories, baseName)
                    item == IF Len(relatedCategories) > 1
                            THEN [type |-> "hierarchy",
                                  name |-> Some(HierarchyName(cat, baseName)),
                                  index |-> idx - 1, categories |-> relatedCategories]
                            ELSE single
                IN  CategoryOrder(categories, idx + 1,
                                  processedIndices \cup Range(relatedCategories),
                                  Append(categoryOrder, item))

-----------------------------------------------------------------------------
(* processData: value nodes *)

\* host.createSelectionIdBuilder().withCategory(category, index).createSelectionId():
\* an opaque token of the column and the row.
SelectionId(col, index) == [category |-> col, index |-> index]

HasValue(values, key) == \E i \in 1..Len(values) : values[i].value = key

\* values.find(v => v.value === key), as an index.
IndexOfValue(values, key) ==
    CHOOSE i \in 1..Len(values) :
        values[i].value = key /\ \A j \in 1..(i - 1) : values[j].value # key

\* A FilterValue.  indeterminate, children and parentValue are optional fields of
\* the interface; every read of them takes an absent one as false, empty or absent.
NewFilterValue(stringValue, identity) ==
    [value |-> stringValue, identity |-> identity, selected |-> FALSE,
     indeterminate |-> FALSE, children |-> <<>>, parentValue |-> None]

\* First pass over one level's column: one FilterValue per distinct string, in
\* the order of first occurrence (a Map keeps insertion order).
RECURSIVE UniqueValues(_, _, _, _)
UniqueValues(category, col, index, uniqueValuesMap) ==
    IF index >= Len(category.values) THEN uniqueValuesMap
    ELSE
        LET stringValue == StringValue(category.values[index + 1])
        IN  UniqueValues(category, col, index + 1,
                IF ~HasValue(uniqueValuesMap, stringValue)
                THEN Append(uniqueValuesMap,
                            NewFilterValue(stringValue, SelectionId(col, index)))
                ELSE uniqueValuesMap)

\* Single column: the Map from each distinct string to its first index.
RECURSIVE FirstIndexMap(_, _, _)
FirstIndexMap(category, index, uniqueValuesMap) ==
    IF index >= Len(category.values) THEN uniqueValuesMap
    ELSE
        LET stringValue == StringValue(category.values[index + 1])
        IN  FirstIndexMap(category, index + 1,
                IF \A i \in 1..Len(uniqueValuesMap) : uniqueValuesMap[i].key # stringValue
                THEN Append(uniqueValuesMap, [key |-> stringValue, firstIndex |-> index])
                ELSE uniqueValuesMap)

\* Single column: uniqueValuesMap.forEach(...) creating the filter values.
SingleValues(category, col) ==
    LET uniqueValuesMap == FirstIndexMap(category, 0, <<>>)
    IN  [i \in 1..Len(uniqueValuesMap) |->
            NewFilterValue(uniqueValuesMap[i].key,
                           SelectionId(col, uniqueValuesMap[i].firstIndex))]

-----------------------------------------------------------------------------
(* processData: linking parents and children *)

\* A link step that pushes the child without looking for it among the children.
LinkRowAlwaysPush(cats, valuesByLevel, rowIdx, levelIdx) ==
    LET parentStr == StringValue(ValueAt(cats[levelIdx + 1], rowIdx))
        childStr == StringValue(ValueAt(cats[levelIdx + 2], rowIdx))
        parents == valuesByLevel[levelIdx + 1]
        childs == valuesByLevel[levelIdx + 2]
    IN  IF HasValue(parents, parentStr) /\ HasValue(childs, childStr)
        THEN [valuesByLevel EXCEPT
                ![levelIdx + 1][IndexOfValue(parents, parentStr)].children =
                    Append(@, childStr),
                ![levelIdx + 2][IndexOfValue(childs, childStr)].parentValue =
                    Some(parentStr)]
        ELSE valuesByLevel

\* A link step that assigns child.parentValue on every row, linked before or not.
LinkRowOverwritesParent(cats, valuesByLevel, rowIdx, levelIdx) ==
    LET parentStr == StringValue(ValueAt(cats[levelIdx + 1], rowIdx))
        childStr == StringValue(ValueAt(cats[levelIdx + 2], rowIdx))
        parents == valuesByLevel[levelIdx + 1]
        childs == valuesByLevel[levelIdx + 2]
    IN  IF HasValue(parents, parentStr) /\ HasValue(childs, childStr)
        THEN
            LET p == IndexOfValue(parents, parentStr)
                c == IndexOfValue(childs, childStr)
            IN  IF \A i \in 1..Len(parents[p].children) : parents[p].children[i] # childStr
                THEN [valuesByLevel EXCEPT
                        ![levelIdx + 1][p].children = Append(@, childStr),
                        ![levelIdx + 2][c].parentValue = Some(parentStr)]
                ELSE [valuesByLevel EXCEPT
                        ![levelIdx + 2][c].parentValue = Some(parentStr)]
        ELSE valuesByLevel

\* One (rowIdx, levelIdx) step of the second pass.  A child is held by its key:
\* the child object is the node of the next level with that key.
LinkRow(cats, valuesByLevel, rowIdx, levelIdx) ==
    LET parentStr == StringValue(ValueAt(cats[levelIdx + 1], rowIdx))
        childStr == StringValue(ValueAt(cats[levelIdx + 2], rowIdx))
        parents == valuesByLevel[levelIdx + 1]
        childs == valuesByLevel[levelIdx + 2]
    IN  IF HasValue(parents, parentStr) /\ HasValue(childs, childStr)
        THEN
            LET p == IndexOfValue(parents, parentStr)
                c == IndexOfValue(childs, childStr)
            IN  IF \A i \in 1..Len(parents[p].children) : parents[p].children[i] # childStr
                THEN [valuesByLevel EXCEPT
                        ![levelIdx + 1][p].children = Append(@, childStr),
                        ![levelIdx + 2][c].parentValue = Some(parentStr)]
                ELSE valuesByLevel
        ELSE valuesByLevel

\* A second pass whose row loop stops one row early.
RECURSIVE SecondPassSkipsLastRow(_, _, _, _)
SecondPassSkipsLastRow(cats, valuesByLevel, rowIdx, levelIdx) ==
    IF rowIdx >= Len(cats[1].values) - 1 THEN valuesByLevel
    ELSE IF levelIdx >= Len(cats) - 1
    THEN SecondPassSkipsLastRow(cats, valuesByLevel, rowIdx + 1, 0)
    ELSE SecondPassSkipsLastRow(cats, LinkRow(cats, valuesByLevel, rowIdx, levelIdx),
                                rowIdx, levelIdx + 1)

\* for (rowIdx ...) for (levelIdx ...) over rowCount = categories[0].values.length rows.
RECURSIVE SecondPass(_, _, _, _)
SecondPass(cats, valuesByLevel, rowIdx, levelIdx) ==
    IF rowIdx >= Len(cats[1].values) THEN valuesByLevel
    ELSE IF levelIdx >= Len(cats) - 1
    THEN SecondPass(cats, valuesByLevel, rowIdx + 1, 0)
    ELSE SecondPass(cats, LinkRow(cats, valuesByLevel, rowIdx, levelIdx), rowIdx, levelIdx + 1)

LevelText == <<"L", "e", "v", "e", "l">>

\* The levels of one hierarchy item: first, second and third pass.
HierarchyLevels(categories, item) ==
    LET cats == [l \in 1..Len(item.categories) |-> categories[item.categories[l]]]
        firstPass == [l \in 1..Len(cats) |->
                         UniqueValues(cats[l], item.categories[l], 0, <<>>)]
        valuesByLevel == SecondPass(cats, firstPass, 0, 0)
    IN  [l \in 1..Len(cats) |->
            [name |-> IF Truthy(cats[l].source.displayName)
                      THEN cats[l].source.displayName[1] ELSE LevelText,
             values |-> valuesByLevel[l],
             levelIndex |-> l - 1]]

-----------------------------------------------------------------------------
(* processData: the categories *)

FilterText == <<"F", "i", "l", "t", "e", "r", " ">>

\* collapsedStates.get(name) ?? false, where collapsedStates holds, for each name,
\* the flag of the last category of the old store with that name.
CollapsedState(oldCategories, name) ==
    LET same == {i \in 1..Len(oldCategories) : oldCategories[i].name = name}
    IN  IF same = {} THEN FALSE
        ELSE oldCategories[CHOOSE i \in same : \A j \in same : j <= i].collapsed

\* One element of categoryOrder.forEach((item, orderIndex) => ...).  A standalone
\* category has no hierarchyLevels: every read guards it, so it is the empty list.
BuildCategory(categories, item, orderIndex, oldCategories) ==
    IF item.type = "hierarchy"
    THEN [name |-> item.name[1], displayName |-> item.name[1], values |-> <<>>,
          isHierarchy |-> TRUE,
          hierarchyLevels |-> HierarchyLevels(categories, item),
          order |-> orderIndex,
          collapsed |-> CollapsedState(oldCategories, item.name[1])]
    ELSE
        LET category == categories[item.categories[1]]
            categoryName == IF Truthy(category.source.displayName)
                            THEN category.source.displayName[1]
                            ELSE FilterText \o Digits(orderIndex + 1)
        IN  [name |-> categoryName, displayName |-> categoryName,
             values |-> SingleValues(category, item.categories[1]),
             isHierarchy |-> FALSE,
             hierarchyLevels |-> <<>>,
             order |-> orderIndex,
             collapsed |-> CollapsedState(oldCategories, categoryName)]

\* A rebuild that gives a standalone value the selected flag that a value with
\* the same key had in the old category of the same name.
ProcessDataKeepingSelection(categories, oldCategories) ==
    LET categoryOrder == CategoryOrder(categories, 1, {}, <<>>)
        built == [i \in 1..Len(categoryOrder) |->
                     BuildCategory(categories, categoryOrder[i], i - 1, oldCategories)]
        wasSelected(name, key) ==
            \E k \in 1..Len(oldCategories) :
                /\ oldCategories[k].name = name
                /\ \E m \in 1..Len(oldCategories[k].values) :
                      /\ oldCategories[k].values[m].value = key
                      /\ oldCategories[k].values[m].selected
    IN  [i \in 1..Len(built) |->
            [built[i] EXCEPT !.values =
                [j \in 1..Len(built[i].values) |->
                    [built[i].values[j] EXCEPT
                        !.selected = wasSelected(built[i].name, built[i].values[j].value)]]]]

\* processData(dataView): the new filterCategories.
ProcessData(categories, oldCategories) ==
    LET categoryOrder == CategoryOrder(categories, 1, {}, <<>>)
    IN  [i \in 1..Len(categoryOrder) |->
            BuildCategory(categories, categoryOrder[i], i - 1, oldCategories)]

\* renderFilters(): createHierarchySection gives every hierarchy category without
\* an entry in expandedNodes an empty set; with no category only the empty state
\* is drawn.  renderTree() runs with no search term and expands nothing.
RenderFilters(categories, expanded) ==
    LET names == {categories[i].name : i \in {j \in 1..Len(categories) : categories[j].isHierarchy}}
    IN  [n \in (DOMAIN expanded) \cup names |->
            IF n \in DOMAIN expanded THEN expanded[n] ELSE {}]

-----------------------------------------------------------------------------
(* The selection state machine *)

\* The node of a level with this key (the object a child reference points to).
NodeAt(hierarchyLevels, level, key) ==
    hierarchyLevels[level + 1].values[IndexOfValue(hierarchyLevels[level + 1].values, key)]

\* filterValue.selected = newSelectedState (toggleHierarchyValue sets nothing else
\* on the clicked node).
FlipSelected(hierarchyLevels, level, key) ==
    LET i == IndexOfValue(hierarchyLevels[level + 1].values, key)
    IN  [hierarchyLevels EXCEPT ![level + 1].values[i].selected = ~@]

\* child.selected = selected, with the child's indeterminate flag left as it was.
CascadedChildKeepsIndeterminate(child, selected) ==
    [child EXCEPT !.selected = selected]

\* child.selected = selected; child.indeterminate = false
CascadedChild(child, selected) ==
    [child EXCEPT !.selected = selected, !.indeterminate = FALSE]

RECURSIVE CascadeSelectionToDescendants(_, _, _, _)
RECURSIVE CascadeChildren(_, _, _, _, _)

\* filterValue.children.forEach(child => ...) from the i-th child on.
CascadeChildren(hierarchyLevels, level, children, i, selected) ==
    IF i > Len(children) THEN hierarchyLevels
    ELSE
        LET c == IndexOfValue(hierarchyLevels[level + 2].values, children[i])
            set == [hierarchyLevels EXCEPT
                       ![level + 2].values[c] = CascadedChild(@, selected)]
        IN  CascadeChildren(
                CascadeSelectionToDescendants(set, level + 1, children[i], selected),
                level, children, i + 1, selected)

\* A cascade that runs only when the node becomes selected.
CascadeWhenSelecting(hierarchyLevels, level, key, selected) ==
    IF selected
    THEN CascadeChildren(hierarchyLevels, level,
                         NodeAt(hierarchyLevels, level, key).children, 1, selected)
    ELSE hierarchyLevels

CascadeSelectionToDescendants(hierarchyLevels, level, key, selected) ==
    CascadeChildren(hierarchyLevels, level,
                    NodeAt(hierarchyLevels, level, key).children, 1, selected)

\* The flags updateParentSelectionRecursive gives a parent, from its children.
ParentState(children) ==
    LET allChildrenSelected == \A i \in 1..Len(children) : children[i].selected
        anyChildSelected == \E i \in 1..Len(children) :
                                children[i].selected \/ children[i].indeterminate
    IN  IF allChildrenSelected THEN [selected |-> TRUE, indeterminate |-> FALSE]
        ELSE IF ~anyChildSelected THEN [selected |-> FALSE, indeterminate |-> FALSE]
        ELSE [selected |-> FALSE, indeterminate |-> TRUE]

\* The first level holding a node with this key that has children, looked for
\* from the last level upwards.
ParentLevelFromBelow(hierarchyLevels, parentValue) ==
    LET found == {l \in 1..Len(hierarchyLevels) :
                     /\ HasValue(hierarchyLevels[l].values, parentValue)
                     /\ Len(NodeAt(hierarchyLevels, l - 1, parentValue).children) > 0}
    IN  IF found = {} THEN 0 ELSE CHOOSE l \in found : \A m \in found : l >= m

\* The first level (in level order) holding a node with this key that has
\* children; 0 when there is none.
ParentLevel(hierarchyLevels, parentValue) ==
    LET found == {l \in 1..Len(hierarchyLevels) :
                     /\ HasValue(hierarchyLevels[l].values, parentValue)
                     /\ Len(NodeAt(hierarchyLevels, l - 1, parentValue).children) > 0}
    IN  IF found = {} THEN 0 ELSE CHOOSE l \in found : \A m \in found : l <= m

RECURSIVE UpdateParentSelectionRecursive(_, _)
UpdateParentSelectionRecursive(hierarchyLevels, parentValue) ==
    LET l == ParentLevel(hierarchyLevels, parentValue)
    IN  IF l = 0 THEN hierarchyLevels
        ELSE
            LET p == IndexOfValue(hierarchyLevels[l].values, parentValue)
                parent == hierarchyLevels[l].values[p]
                children == [i \in 1..Len(parent.children) |->
                                NodeAt(hierarchyLevels, l, parent.children[i])]
                state == ParentState(children)
                updated == [hierarchyLevels EXCEPT
                               ![l].values[p].selected = state.selected,
                               ![l].values[p].indeterminate = state.indeterminate]
            IN  IF Truthy(parent.parentValue)
                THEN UpdateParentSelectionRecursive(updated, parent.parentValue[1])
                ELSE updated

\* The flags of a hierarchy after toggleHierarchyValue(filterValue, category, level).
ToggledLevels(hierarchyLevels, level, key) ==
    LET flipped == FlipSelected(hierarchyLevels, level, key)
        filterValue == NodeAt(flipped, level, key)
        cascaded == CascadeSelectionToDescendants(flipped, level, key, filterValue.selected)
    IN  IF Truthy(filterValue.parentValue)
        THEN UpdateParentSelectionRecursive(cascaded, filterValue.parentValue[1])
        ELSE cascaded

-----------------------------------------------------------------------------
(* Search and expansion *)

UpperCase == <<"A", "B", "C", "D", "E", "F", "G", "H", "I", "J", "K", "L", "M",
               "N", "O", "P", "Q", "R", "S", "T", "U", "V", "W", "X", "Y", "Z">>
LowerCase == <<"a", "b", "c", "d", "e", "f", "g", "h", "i", "j", "k", "l", "m",
               "n", "o", "p", "q", "r", "s", "t", "u", "v", "w", "x", "y", "z">>

\* s.toLowerCase(), for the ASCII letters.
ToLowerCase(s) ==
    [i \in 1..Len(s) |->
        IF \E k \in 1..Len(UpperCase) : UpperCase[k] = s[i]
        THEN LowerCase[CHOOSE k \in 1..Len(UpperCase) : UpperCase[k] = s[i]]
        ELSE s[i]]

\* s.includes(t)
Includes(s, t) ==
    \E i \in 0..(Len(s) - Len(t)) : SubSeq(s, i + 1, i + Len(t)) = t

\* A matcher that compares the value with the term as typed.
RECURSIVE MatchesSearchCaseSensitive(_, _, _, _)
MatchesSearchCaseSensitive(hierarchyLevels, level, key, searchTerm) ==
    IF Len(searchTerm) = 0 THEN TRUE
    ELSE IF Includes(key, searchTerm) THEN TRUE
    ELSE LET children == NodeAt(hierarchyLevels, level, key).children
         IN  \E i \in 1..Len(children) :
                 MatchesSearchCaseSensitive(hierarchyLevels, level + 1, children[i], searchTerm)

\* A matcher that looks at the node's own value only.
MatchesSearchOwnValue(hierarchyLevels, level, key, searchTerm) ==
    IF Len(searchTerm) = 0 THEN TRUE
    ELSE Includes(ToLowerCase(key), ToLowerCase(searchTerm))

\* matchesSearchRecursive(value, searchTerm), value being the node (level, key).
RECURSIVE MatchesSearchRecursive(_, _, _, _)
MatchesSearchRecursive(hierarchyLevels, level, key, searchTerm) ==
    IF Len(searchTerm) = 0 THEN TRUE
    ELSE IF Includes(ToLowerCase(key), ToLowerCase(searchTerm)) THEN TRUE
    ELSE LET children == NodeAt(hierarchyLevels, level, key).children
         IN  \E i \in 1..Len(children) :
                 MatchesSearchRecursive(hierarchyLevels, level + 1, children[i], searchTerm)

\* `${category.name}_${level}_${value.value}`
NodeKey(name, level, value) == name \o <<"_">> \o Digits(level) \o <<"_">> \o value

\* this.expandedNodes.get(category.name)?.has(nodeKey) || false
IsExpanded(expanded, name, nodeKey) ==
    IF name \in DOMAIN expanded THEN nodeKey \in expanded[name] ELSE FALSE

\* An auto-expansion that skips the nodes without children.
AutoExpandedParentKeys(category, searchTerm) ==
    IF Len(searchTerm) = 0 THEN {}
    ELSE UNION {{NodeKey(category.name, idx - 1, category.hierarchyLevels[idx].values[i].value) :
                    i \in {j \in 1..Len(category.hierarchyLevels[idx].values) :
                              /\ Len(category.hierarchyLevels[idx].values[j].children) > 0
                              /\ MatchesSearchRecursive(category.hierarchyLevels, idx - 1,
                                     category.hierarchyLevels[idx].values[j].value, searchTerm)}} :
                  idx \in 1..Len(category.hierarchyLevels)}

\* renderTree(searchTerm), "auto-expand nodes when searching": the keys added to
\* the expanded set of the category.
AutoExpandedKeys(category, searchTerm) ==
    IF Len(searchTerm) = 0 THEN {}
    ELSE UNION {{NodeKey(category.name, idx - 1, category.hierarchyLevels[idx].values[i].value) :
                    i \in {j \in 1..Len(category.hierarchyLevels[idx].values) :
                              MatchesSearchRecursive(category.hierarchyLevels, idx - 1,
                                  category.hierarchyLevels[idx].values[j].value, searchTerm)}} :
                  idx \in 1..Len(category.hierarchyLevels)}

\* createHierarchyNode(category, value, level, searchTerm): the nodes drawn, as
\* (level, key) pairs.
RECURSIVE CreateHierarchyNode(_, _, _, _, _)
CreateHierarchyNode(category, expanded, level, key, searchTerm) ==
    LET children == NodeAt(category.hierarchyLevels, level, key).children
        shown == {i \in 1..Len(children) :
                     MatchesSearchRecursive(category.hierarchyLevels, level + 1,
                                            children[i], searchTerm)}
    IN  {<<level, key>>}
        \cup IF Len(children) > 0
                 /\ IsExpanded(expanded, category.name, NodeKey(category.name, level, key))
              THEN UNION {CreateHierarchyNode(category, expanded, level + 1, children[i],
                                              searchTerm) : i \in shown}
              ELSE {}

\* renderTree(searchTerm), "render first level": the nodes drawn in the tree
\* container of a hierarchy section that is not collapsed.
RenderTree(category, expanded, searchTerm) ==
    IF Len(category.hierarchyLevels) = 0 THEN {}
    ELSE LET firstLevel == category.hierarchyLevels[1]
         IN  UNION {CreateHierarchyNode(category, expanded, 0, firstLevel.values[i].value,
                                        searchTerm) :
                       i \in {j \in 1..Len(firstLevel.values) :
                                 MatchesSearchRecursive(category.hierarchyLevels, 0,
                                     firstLevel.values[j].value, searchTerm)}}

-----------------------------------------------------------------------------
(* What is handed to the selection manager *)

RECURSIVE Concat(_)
Concat(seqs) == IF Len(seqs) = 0 THEN <<>> ELSE Head(seqs) \o Concat(Tail(seqs))

\* values.forEach(val => { if (val.selected) selectedIds.push(val.identity) })
SelectedIds(values) ==
    LET picked == SelectSeq(values, LAMBDA val : val.selected)
    IN  [i \in 1..Len(picked) |-> picked[i].identity]

\* hierarchyLevels.forEach(level => level.values.forEach(...))
LevelsSelectedIds(hierarchyLevels) ==
    Concat([l \in 1..Len(hierarchyLevels) |-> SelectedIds(hierarchyLevels[l].values)])

\* selectedIds.length > 0 ? selectionManager.select(selectedIds, false)
\*                        : selectionManager.clear()
Submit(selectedIds) ==
    IF Len(selectedIds) > 0 THEN [call |-> "select", ids |-> Range(selectedIds)]
    ELSE [call |-> "clear", ids |-> {}]

\* toggleHierarchyValue: the hierarchy's own levels, then "other categories".
HierarchyToggleIds(categories, c) ==
    LevelsSelectedIds(categories[c].hierarchyLevels)
    \o Concat([i \in 1..Len(categories) |->
                  IF categories[i].name # categories[c].name
                  THEN SelectedIds(categories[i].values) ELSE <<>>])

\* toggleSelection: "all selected identities".
ToggleSelectionIds(categories) ==
    Concat([i \in 1..Len(categories) |-> SelectedIds(categories[i].values)])

\* clearCategorySelection: "remaining selected identities".
ClearCategoryIds(categories) ==
    Concat([i \in 1..Len(categories) |->
               SelectedIds(categories[i].values)
               \o LevelsSelectedIds(categories[i].hierarchyLevels)])

\* clearHierarchySelection: "remaining selected identities from other categories".
ClearHierarchyIds(categories, c) ==
    Concat([i \in 1..Len(categories) |->
               IF categories[i].name # categories[c].name
               THEN SelectedIds(categories[i].values)
                    \o LevelsSelectedIds(categories[i].hierarchyLevels)
               ELSE <<>>])

\* val.selected = false on every value of a list
Deselected(values) == [i \in 1..Len(values) |-> [values[i] EXCEPT !.selected = FALSE]]

-----------------------------------------------------------------------------
(* Which nodes can be clicked *)

\* A node is drawn by createHierarchyNode when it is a first-level value or a
\* child of a drawn node: it hangs, through children, from a first-level value.
\* Expanding the nodes above it (which changes no flag) puts it on screen.
RECURSIVE Attached(_, _, _)
Attached(hierarchyLevels, level, key) ==
    /\ level + 1 \in 1..Len(hierarchyLevels)
    /\ HasValue(hierarchyLevels[level + 1].values, key)
    /\ IF level = 0 THEN TRUE
       ELSE \E i \in 1..Len(hierarchyLevels[level].values) :
               LET parent == hierarchyLevels[level].values[i]
               IN  /\ \E j \in 1..Len(parent.children) : parent.children[j] = key
                   /\ Attached(hierarchyLevels, level - 1, parent.value)

\* The (level, key) pairs of the nodes of a hierarchy.
Nodes(hierarchyLevels) ==
    UNION {{<<l - 1, hierarchyLevels[l].values[i].value>> :
                i \in 1..Len(hierarchyLevels[l].values)} : l \in 1..Len(hierarchyLevels)}

-----------------------------------------------------------------------------
(* The steps of a toggle *)

\* The level indexes of the nodes updateParentSelectionRecursive(category,
\* parentValue) recomputes, call after call; -1 stands for a call that is still
\* to be made when fuel calls have been made.
RECURSIVE UpwardLevels(_, _, _)
UpwardLevels(hierarchyLevels, parentValue, fuel) ==
    IF fuel = 0 THEN <<-1>>
    ELSE
        LET l == ParentLevel(hierarchyLevels, parentValue)
        IN  IF l = 0 THEN <<>>
            ELSE
                LET parent == NodeAt(hierarchyLevels, l - 1, parentValue)
                IN  <<l - 1>> \o
                    (IF Truthy(parent.parentValue)
                     THEN UpwardLevels(hierarchyLevels, parent.parentValue[1], fuel - 1)
                     ELSE <<>>)

\* The level indexes of the children cascadeSelectionToDescendants(filterValue,
\* selected) assigns, in the order of the assignments; -1 stands for a call that
\* is still to be made at a nesting depth of fuel calls.
RECURSIVE CascadeLevels(_, _, _, _)
CascadeLevels(hierarchyLevels, level, key, fuel) ==
    IF fuel = 0 THEN <<-1>>
    ELSE
        LET children == NodeAt(hierarchyLevels, level, key).children
        IN  Concat([i \in 1..Len(children) |->
                       <<level + 1>> \o
                       CascadeLevels(hierarchyLevels, level + 1, children[i], fuel - 1)])

\* The levels recomputed by toggleHierarchyValue on the node (level, key).
ToggleUpwardLevels(hierarchyLevels, level, key) ==
    LET filterValue == NodeAt(hierarchyLevels, level, key)
    IN  IF Truthy(filterValue.parentValue)
        THEN UpwardLevels(hierarchyLevels, filterValue.parentValue[1],
                          Len(hierarchyLevels) + 1)
        ELSE <<>>

-----------------------------------------------------------------------------
(* The handlers *)

\* The history record of a handler call; repeat says that the call before it was
\* the same handler with the same arguments.
Op(op, cat, level, value) ==
    [op |-> op, cat |-> cat, level |-> level, value |-> value,
     repeat |-> /\ lastOp.op = op /\ lastOp.cat = cat
                /\ lastOp.level = level /\ lastOp.value = value]

\* The state after the constructor.
Constructed ==
    /\ filterCategories = <<>>
    /\ expandedNodes = [n \in {} |-> {}]
    /\ isMenuOpen = FALSE
    /\ menuPanel = {"menu-panel"}
    /\ overlay = {"menu-overlay"}
    /\ burgerButton = {"burger-button"}
    /\ selectionManager = [call |-> "none", ids |-> {}]
    /\ lastOp = [op |-> "constructor", cat |-> 0, level |-> 0, value |-> <<>>,
                 repeat |-> FALSE]
    /\ keptCollapsed = {}
    /\ clearedSince = {}

\* An update that forgets which nodes were expanded: every hierarchy category
\* of the rebuilt store starts with an empty expanded set.
UpdateWithFreshExpansion(dv) ==
    /\ dataView' = dv
    /\ IF ~IsSome(dv)
       THEN UNCHANGED <<filterCategories, expandedNodes>>
       ELSE /\ filterCategories' = ProcessData(dv[1].categories, filterCategories)
            /\ expandedNodes' =
                   [n \in DOMAIN RenderFilters(filterCategories', expandedNodes) |-> {}]
    /\ lastOp' = Op("update", 0, 0, <<>>)
    /\ clearedSince' = {}
    /\ UNCHANGED <<isMenuOpen, menuPanel, overlay, burgerButton, selectionManager,
                   keptCollapsed>>

\* update(options), with options.dataViews?.[0] absent or holding the categories
\* (a data view without categorical or without categories is handled like an
\* absent one: renderEmptyState() and return).
UpdateWith(dv) ==
    /\ dataView' = dv
    /\ IF ~IsSome(dv)
       THEN UNCHANGED <<filterCategories, expandedNodes>>
       ELSE /\ filterCategories' = ProcessData(dv[1].categories, filterCategories)
            /\ expandedNodes' = RenderFilters(filterCategories', expandedNodes)
    /\ lastOp' = Op("update", 0, 0, <<>>)
    /\ clearedSince' = {}
    /\ UNCHANGED <<isMenuOpen, menuPanel, overlay, burgerButton, selectionManager,
                   keptCollapsed>>

\* The host calls update() again with the data view it holds (on a resize, a
\* format change, or the first time).
Update == UpdateWith(dataView)

\* A click on the node item of the node (level, key) of hierarchy category c.
ToggleHierarchyValue(c, level, key) ==
    /\ c \in 1..Len(filterCategories)
    /\ filterCategories[c].isHierarchy
    /\ Attached(filterCategories[c].hierarchyLevels, level, key)
    /\ filterCategories' =
           [filterCategories EXCEPT ![c].hierarchyLevels = ToggledLevels(@, level, key)]
    /\ selectionManager' = Submit(HierarchyToggleIds(filterCategories', c))
    /\ expandedNodes' = RenderFilters(filterCategories', expandedNodes)
    /\ lastOp' = Op("toggleHierarchyValue", c, level, key)
    /\ clearedSince' = {}
    /\ UNCHANGED <<isMenuOpen, menuPanel, overlay, burgerButton, dataView, keptCollapsed>>

\* A toggle that deselects the other values of the category (single choice).
ToggleSelectionSingleChoice(c, key) ==
    /\ c \in 1..Len(filterCategories)
    /\ ~filterCategories[c].isHierarchy
    /\ HasValue(filterCategories[c].values, key)
    /\ filterCategories' =
           [filterCategories EXCEPT
               ![c].values =
                   [i \in 1..Len(filterCategories[c].values) |->
                       [filterCategories[c].values[i] EXCEPT !.selected =
                           IF filterCategories[c].values[i].value = key THEN ~@ ELSE FALSE]]]
    /\ selectionManager' = Submit(ToggleSelectionIds(filterCategories'))
    /\ expandedNodes' = RenderFilters(filterCategories', expandedNodes)
    /\ lastOp' = Op("toggleSelection", c, 0, key)
    /\ clearedSince' = {}
    /\ UNCHANGED <<isMenuOpen, menuPanel, overlay, burgerButton, dataView, keptCollapsed>>

\* A click on the value item with this key of the standard category c.
ToggleSelection(c, key) ==
    /\ c \in 1..Len(filterCategories)
    /\ ~filterCategories[c].isHierarchy
    /\ HasValue(filterCategories[c].values, key)
    /\ filterCategories' =
           [filterCategories EXCEPT
               ![c].values[IndexOfValue(filterCategories[c].values, key)].selected = ~@]
    /\ selectionManager' = Submit(ToggleSelectionIds(filterCategories'))
    /\ expandedNodes' = RenderFilters(filterCategories', expandedNodes)
    /\ lastOp' = Op("toggleSelection", c, 0, key)
    /\ clearedSince' = {}
    /\ UNCHANGED <<isMenuOpen, menuPanel, overlay, burgerButton, dataView, keptCollapsed>>

\* A Clear button that deselects the values of every standard category.
ClearEveryCategorySelection(c) ==
    /\ c \in 1..Len(filterCategories)
    /\ ~filterCategories[c].isHierarchy
    /\ filterCategories' =
           [d \in 1..Len(filterCategories) |->
               [filterCategories[d] EXCEPT !.values = Deselected(@)]]
    /\ selectionManager' = Submit(ClearCategoryIds(filterCategories'))
    /\ expandedNodes' = RenderFilters(filterCategories', expandedNodes)
    /\ lastOp' = Op("clearCategorySelection", c, 0, <<>>)
    /\ clearedSince' = clearedSince \cup {c}
    /\ UNCHANGED <<isMenuOpen, menuPanel, overlay, burgerButton, dataView, keptCollapsed>>

\* A click on the Clear button of the standard category c.
ClearCategorySelection(c) ==
    /\ c \in 1..Len(filterCategories)
    /\ ~filterCategories[c].isHierarchy
    /\ filterCategories' = [filterCategories EXCEPT ![c].values = Deselected(@)]
    /\ selectionManager' = Submit(ClearCategoryIds(filterCategories'))
    /\ expandedNodes' = RenderFilters(filterCategories', expandedNodes)
    /\ lastOp' = Op("clearCategorySelection", c, 0, <<>>)
    /\ clearedSince' = clearedSince \cup {c}
    /\ UNCHANGED <<isMenuOpen, menuPanel, overlay, burgerButton, dataView, keptCollapsed>>

\* A reset loop that visits the first level only.
ClearedFirstLevel(hierarchyLevels) ==
    [l \in 1..Len(hierarchyLevels) |->
        IF l = 1 THEN [hierarchyLevels[l] EXCEPT !.values = Deselected(@)]
        ELSE hierarchyLevels[l]]

\* level.values.forEach(val => val.selected = false) on every level
ClearedLevels(hierarchyLevels) ==
    [l \in 1..Len(hierarchyLevels) |->
        [hierarchyLevels[l] EXCEPT !.values = Deselected(@)]]

\* A click on the Clear button of the hierarchy category c.
ClearHierarchySelection(c) ==
    /\ c \in 1..Len(filterCategories)
    /\ filterCategories[c].isHierarchy
    /\ filterCategories' =
           [filterCategories EXCEPT ![c].hierarchyLevels = ClearedLevels(@)]
    /\ selectionManager' = Submit(ClearHierarchyIds(filterCategories', c))
    /\ expandedNodes' = RenderFilters(filterCategories', expandedNodes)
    /\ lastOp' = Op("clearHierarchySelection", c, 0, <<>>)
    /\ clearedSince' = clearedSince \cup {c}
    /\ UNCHANGED <<isMenuOpen, menuPanel, overlay, burgerButton, dataView, keptCollapsed>>

\* The filter sections are on screen: the last render was renderFilters() and
\* not the renderEmptyState() of an update() without a data view (after which
\* nothing of the sections can be clicked until the next update).
SectionsDrawn == IsSome(dataView)

\* update(options) with a data view the host has changed.
UpdateView(dv) == UpdateWith(dv)

\* A click on the header of the section of category c.
HeaderClick(c) ==
    /\ SectionsDrawn
    /\ c \in 1..Len(filterCategories)
    /\ filterCategories' = [filterCategories EXCEPT ![c].collapsed = ~@]
    /\ expandedNodes' = RenderFilters(filterCategories', expandedNodes)
    /\ keptCollapsed' = IF filterCategories'[c].collapsed
                        THEN keptCollapsed \cup {filterCategories[c].name}
                        ELSE keptCollapsed \ {filterCategories[c].name}
    /\ lastOp' = Op("headerClick", c, 0, <<>>)
    /\ UNCHANGED <<isMenuOpen, menuPanel, overlay, burgerButton, selectionManager, dataView,
                   clearedSince>>

\* A click on the expand icon of the drawn node (level, key) of hierarchy c.
ExpandClick(c, level, key) ==
    /\ SectionsDrawn
    /\ c \in 1..Len(filterCategories)
    /\ filterCategories[c].isHierarchy
    /\ ~filterCategories[c].collapsed
    /\ <<level, key>> \in RenderTree(filterCategories[c], expandedNodes, <<>>)
    /\ Len(NodeAt(filterCategories[c].hierarchyLevels, level, key).children) > 0
    /\ LET name == filterCategories[c].name
           nodeKey == NodeKey(name, level, key)
           toggled == [expandedNodes EXCEPT
                          ![name] = IF nodeKey \in @ THEN @ \ {nodeKey}
                                    ELSE @ \cup {nodeKey}]
       IN  expandedNodes' = RenderFilters(filterCategories, toggled)
    /\ lastOp' = Op("expandClick", c, level, key)
    /\ UNCHANGED <<filterCategories, isMenuOpen, menuPanel, overlay, burgerButton,
                   selectionManager, dataView, keptCollapsed, clearedSince>>

\* An input event on the search box of hierarchy c: renderTree(searchTerm).
SearchInput(c, searchTerm) ==
    /\ SectionsDrawn
    /\ c \in 1..Len(filterCategories)
    /\ filterCategories[c].isHierarchy
    /\ ~filterCategories[c].collapsed
    /\ expandedNodes' =
           [expandedNodes EXCEPT
               ![filterCategories[c].name] = @ \cup AutoExpandedKeys(filterCategories[c], searchTerm)]
    /\ lastOp' = Op("searchInput", c, 0, searchTerm)
    /\ UNCHANGED <<filterCategories, isMenuOpen, menuPanel, overlay, burgerButton,
                   selectionManager, dataView, keptCollapsed, clearedSince>>

\* An openMenu() that leaves the overlay as it is.
OpenMenuWithoutOverlay ==
    /\ isMenuOpen' = TRUE
    /\ menuPanel' = menuPanel \cup {"open"}
    /\ burgerButton' = burgerButton \cup {"hidden"}
    /\ UNCHANGED overlay

\* openMenu()
OpenMenu ==
    /\ isMenuOpen' = TRUE
    /\ menuPanel' = menuPanel \cup {"open"}
    /\ overlay' = overlay \cup {"visible"}
    /\ burgerButton' = burgerButton \cup {"hidden"}

\* closeMenu()
CloseMenu ==
    /\ isMenuOpen' = FALSE
    /\ menuPanel' = menuPanel \ {"open"}
    /\ overlay' = overlay \ {"visible"}
    /\ burgerButton' = burgerButton \ {"hidden"}

\* toggleMenu()
ToggleMenu == IF isMenuOpen THEN CloseMenu ELSE OpenMenu

\* A click on the burger button.
BurgerClick ==
    /\ ToggleMenu
    /\ lastOp' = Op("burgerClick", 0, 0, <<>>)
    /\ UNCHANGED <<filterCategories, expandedNodes, selectionManager, dataView,
                   keptCollapsed, clearedSince>>

\* A click on the close button of the panel.
CloseButtonClick ==
    /\ CloseMenu
    /\ lastOp' = Op("closeButtonClick", 0, 0, <<>>)
    /\ UNCHANGED <<filterCategories, expandedNodes, selectionManager, dataView,
                   keptCollapsed, clearedSince>>

\* A click on the overlay.
OverlayClick ==
    /\ CloseMenu
    /\ lastOp' = Op("overlayClick", 0, 0, <<>>)
    /\ UNCHANGED <<filterCategories, expandedNodes, selectionManager, dataView,
                   keptCollapsed, clearedSince>>

-----------------------------------------------------------------------------
(* Inputs *)

MaxRows == 2

StringCell(s) == [t |-> "string", v |-> s]
NumberCell(n) == [t |-> "number", v |-> n]
NullCell == [t |-> "null", v |-> <<>>]

Source(displayName, queryName) ==
    [displayName |-> Some(displayName), queryName |-> Some(queryName)]

\* Fields of three tables T, U and V.
TC == Source(<<"C">>, <<"T", ".", "C">>)
TS == Source(<<"S">>, <<"T", ".", "S">>)
TP == Source(<<"P">>, <<"T", ".", "P">>)
UR == Source(<<"R">>, <<"U", ".", "R">>)
UD == Source(<<"D">>, <<"U", ".", "D">>)
UE == Source(<<"E">>, <<"U", ".", "E">>)
UC == Source(<<"C">>, <<"U", ".", "C">>)
VQ == Source(<<"Q">>, <<"V", ".", "Q">>)

\* A field of a layout: its source and the cells its column is drawn from.
Field(source, cells) == [source |-> source, cells |-> cells]

\* The data views with these fields and r rows, rows aligned by index.
Tables(layout, r) ==
    {Some([categories |->
              [i \in 1..Len(layout) |-> [source |-> layout[i].source, values |-> cols[i]]]]) :
        cols \in {f \in [1..Len(layout) -> UNION {[1..r -> layout[i].cells] : i \in 1..Len(layout)}] :
                     \A i \in 1..Len(layout) : f[i] \in [1..r -> layout[i].cells]}}

TablesUpTo(layout, rows) == UNION {Tables(layout, r) : r \in 0..rows}

EmptyString == StringCell(<<>>)
CellA == StringCell(<<"a">>)
CellB == StringCell(<<"b">>)
CellC == StringCell(<<"c">>)

\* Field lists: a two-level hierarchy with the empty string among its values, a
\* three-level hierarchy, a hierarchy and a standalone field, two hierarchies, a
\* hierarchy and a standalone field with the hierarchy's name, two standalone
\* fields, one standalone field, no field.
SelectionLayouts ==
    {<<Field(TC, {EmptyString, CellA}), Field(TS, {EmptyString, CellA})>>,
     <<Field(TC, {CellA}), Field(TS, {CellA, CellB}), Field(TP, {EmptyString, CellC})>>,
     <<Field(TC, {CellA}), Field(TS, {CellA, CellB}), Field(UR, {CellA, CellB})>>,
     <<Field(TC, {CellA}), Field(TS, {CellA, CellB}),
       Field(UD, {CellA}), Field(UE, {CellB})>>,
     <<Field(TC, {CellA}), Field(TS, {CellA, CellB}), Field(UC, {CellA})>>,
     <<Field(UR, {CellA, CellB}), Field(VQ, {CellA})>>,
     <<Field(UR, {EmptyString, CellA, CellB})>>,
     <<>>}

SelectionDataViews ==
    {None} \cup UNION {TablesUpTo(l, MaxRows) : l \in SelectionLayouts}

MaxBuildRows == 3

\* Field lists for the rebuild alone: one standalone field and a two-level
\* hierarchy, over null cells, the text "(Blank)", the number 1 and the text "1";
\* a two-level hierarchy with two parents and three children; a three-level
\* hierarchy.
BuildLayouts ==
    {<<Field(UR, {NullCell, StringCell(Blank), CellA, NumberCell(1), StringCell(<<"1">>)})>>,
     <<Field(TC, {NullCell, CellA, StringCell(Blank)}),
       Field(TS, {NullCell, NumberCell(1), StringCell(<<"1">>)})>>,
     <<Field(TC, {CellA, CellB}), Field(TS, {CellA, CellB, CellC})>>,
     <<Field(TC, {CellA}), Field(TS, {CellA, CellB}), Field(TP, {NullCell, CellC})>>}

\* The tuples of columns of a layout, the i-th column with lens[i] cells.
RECURSIVE ColumnTuples(_, _)
ColumnTuples(layout, lens) ==
    IF Len(layout) = 0 THEN {<<>>}
    ELSE {<<c>> \o rest : c \in [1..lens[1] -> layout[1].cells],
                          rest \in ColumnTuples(Tail(layout), Tail(lens))}

\* The data views of a layout whose columns do not all have the same length
\* (each at most rows cells): the host is not held to aligned columns.
RaggedTables(layout, rows) ==
    {Some([categories |->
              [i \in 1..Len(layout) |-> [source |-> layout[i].source, values |-> cols[i]]]]) :
        cols \in UNION {ColumnTuples(layout, lens) :
                           lens \in {f \in [1..Len(layout) -> 0..rows] :
                                        \E i, j \in 1..Len(layout) : f[i] # f[j]}}}

\* A two-level hierarchy with ragged columns.
RaggedLayouts ==
    {<<Field(TC, {NullCell, CellA}), Field(TS, {CellA, CellB})>>}

BuildDataViews ==
    UNION {TablesUpTo(l, MaxBuildRows) : l \in BuildLayouts}
    \cup UNION {RaggedTables(l, MaxBuildRows) : l \in RaggedLayouts}

MaxFields == 3

\* Fields without a queryName: one with the display name of T.C, one without
\* any name.
NC == [displayName |-> Some(<<"C">>), queryName |-> None]
NN == [displayName |-> None, queryName |-> None]

GroupSources == {TC, TS, UR, NC, NN}

\* Field lists of up to MaxFields fields, in any order and with repetitions, each
\* column holding the one cell "a".
GroupDataViews ==
    UNION {{Some([categories |->
                    [i \in 1..n |-> [source |-> sources[i], values |-> <<CellA>>]]]) :
               sources \in [1..n -> GroupSources]} : n \in 0..MaxFields}

MaxSearchRows == 3

CellF == StringCell(<<"F">>)
CellV == StringCell(<<"V">>)
CellAp == StringCell(<<"A", "p">>)
CellUpperB == StringCell(<<"B">>)
CellMixedAp == StringCell(<<"a", "P">>)

\* Field lists for searching: a two-level hierarchy with two roots, a three-level
\* hierarchy with a null cell at the lowest level.
SearchLayouts ==
    {<<Field(TC, {CellF, CellV}), Field(TS, {CellAp, CellUpperB})>>,
     <<Field(TC, {CellF}), Field(TS, {CellUpperB}),
       Field(TP, {CellMixedAp, NullCell})>>}

SearchDataViews == UNION {TablesUpTo(l, MaxSearchRows) : l \in SearchLayouts}

\* What is typed into the search box: nothing, "aP", "b", "x".
SearchTerms == {<<>>, <<"a", "P">>, <<"b">>, <<"x">>}

MaxViewRows == 2

\* Field lists for rebuilds with changing input: two hierarchies named C (two
\* and three levels), the standalone field R, no field.
ViewLayouts ==
    {<<Field(TC, {CellA}), Field(TS, {CellA, CellB})>>,
     <<Field(TC, {CellA}), Field(TS, {CellA}), Field(TP, {CellA, CellB})>>,
     <<Field(UR, {CellA})>>,
     <<>>}

ViewDataViews ==
    {None} \cup UNION {TablesUpTo(l, MaxViewRows) : l \in ViewLayouts}

MaxLocalRows == 3

CellX == StringCell(<<"x">>)
CellD == StringCell(<<"d">>)

\* Rows of a three-level hierarchy in which the child x has the parents a and b
\* and the key a is also the key of a second-level node under b.
LocalRows ==
    {<<CellA, CellX, CellD>>, <<CellB, CellX, CellD>>, <<CellB, CellA, CellC>>}

LocalDataViews ==
    UNION {{Some([categories |->
                    [i \in 1..3 |->
                        [source |-> <<TC, TS, TP>>[i],
                         values |-> [k \in 1..r |-> rows[k][i]]]]]) :
               rows \in [1..r -> LocalRows]} : r \in 0..MaxLocalRows}

MaxFrameRows == 2

\* Field lists with two groups: a hierarchy and a standalone field, two
\* hierarchies, two standalone fields, a hierarchy and a standalone field with
\* the hierarchy's name.
FrameLayouts ==
    {<<Field(TC, {CellA}), Field(TS, {CellA, CellB}), Field(UR, {CellA})>>,
     <<Field(TC, {CellA}), Field(TS, {CellA}), Field(UD, {CellA}), Field(UE, {CellA})>>,
     <<Field(UR, {CellA}), Field(VQ, {CellA})>>,
     <<Field(TC, {CellA}), Field(TS, {CellA}), Field(UC, {CellA})>>}

FrameDataViews == UNION {TablesUpTo(l, MaxFrameRows) : l \in FrameLayouts}

-----------------------------------------------------------------------------
(* The selection core: updates, toggles and clears *)

Init == Constructed /\ dataView \in SelectionDataViews

Next ==
    \/ Update
    \/ \E c \in 1..Len(filterCategories) :
          \E n \in Nodes(filterCategories[c].hierarchyLevels) :
              ToggleHierarchyValue(c, n[1], n[2])
    \/ \E c \in 1..Len(filterCategories) :
          \E i \in 1..Len(filterCategories[c].values) :
              ToggleSelection(c, filterCategories[c].values[i].value)
    \/ \E c \in 1..Len(filterCategories) : ClearCategorySelection(c)
    \/ \E c \in 1..Len(filterCategories) : ClearHierarchySelection(c)

Spec == Init /\ [][Next]_vars

\* Updates and toggles only: no Clear button is clicked.
NextToggles ==
    \/ Update
    \/ \E c \in 1..Len(filterCategories) :
          \E n \in Nodes(filterCategories[c].hierarchyLevels) :
              ToggleHierarchyValue(c, n[1], n[2])
    \/ \E c \in 1..Len(filterCategories) :
          \E i \in 1..Len(filterCategories[c].values) :
              ToggleSelection(c, filterCategories[c].values[i].value)

SpecToggles == Init /\ [][NextToggles]_vars

\* The rebuild alone: the host calls update() with its data view, again and again.
InitBuild == Constructed /\ dataView \in BuildDataViews

NextBuild == Update

SpecBuild == InitBuild /\ [][NextBuild]_vars

\* The grouping alone: the host calls update() with a list of one-cell fields.
InitGroup == Constructed /\ dataView \in GroupDataViews

NextGroup == Update

SpecGroup == InitGroup /\ [][NextGroup]_vars

\* Searching, one term after another, in the hierarchy of one data view.
InitSearch == Constructed /\ dataView \in SearchDataViews

NextSearch ==
    \/ Update
    \/ \E c \in 1..Len(filterCategories) :
          \E searchTerm \in SearchTerms : SearchInput(c, searchTerm)

SpecSearch == InitSearch /\ [][NextSearch]_vars

\* Rebuilds with changing input, header clicks and expand clicks.
InitView == Constructed /\ dataView = None

NextView ==
    \/ \E dv \in ViewDataViews : UpdateView(dv)
    \/ \E c \in 1..Len(filterCategories) : HeaderClick(c)
    \/ \E c \in 1..Len(filterCategories) :
          \E n \in Nodes(filterCategories[c].hierarchyLevels) :
              ExpandClick(c, n[1], n[2])

SpecView == InitView /\ [][NextView]_vars

\* The menu: opening and closing it between updates, toggles, header clicks and
\* expand clicks.
InitMenu == Constructed /\ dataView \in ViewDataViews

NextMenu ==
    \/ Update
    \/ \E c \in 1..Len(filterCategories) :
          \E n \in Nodes(filterCategories[c].hierarchyLevels) :
              ToggleHierarchyValue(c, n[1], n[2])
    \/ \E c \in 1..Len(filterCategories) :
          \E i \in 1..Len(filterCategories[c].values) :
              ToggleSelection(c, filterCategories[c].values[i].value)
    \/ \E c \in 1..Len(filterCategories) : HeaderClick(c)
    \/ \E c \in 1..Len(filterCategories) :
          \E n \in Nodes(filterCategories[c].hierarchyLevels) :
              ExpandClick(c, n[1], n[2])
    \/ BurgerClick
    \/ CloseButtonClick
    \/ OverlayClick

SpecMenu == InitMenu /\ [][NextMenu]_vars

\* Toggles in one three-level hierarchy with shared keys and shared children.
InitLocal == Constructed /\ dataView \in LocalDataViews

NextLocal ==
    \/ Update
    \/ \E c \in 1..Len(filterCategories) :
          \E n \in Nodes(filterCategories[c].hierarchyLevels) :
              ToggleHierarchyValue(c, n[1], n[2])

SpecLocal == InitLocal /\ [][NextLocal]_vars

\* Selection operations on two groups, between header clicks and expand clicks.
InitFrame == Constructed /\ dataView \in FrameDataViews

NextFrame ==
    \/ Update
    \/ \E c \in 1..Len(filterCategories) :
          \E n \in Nodes(filterCategories[c].hierarchyLevels) :
              ToggleHierarchyValue(c, n[1], n[2])
    \/ \E c \in 1..Len(filterCategories) :
          \E i \in 1..Len(filterCategories[c].values) :
              ToggleSelection(c, filterCategories[c].values[i].value)
    \/ \E c \in 1..Len(filterCategories) : ClearCategorySelection(c)
    \/ \E c \in 1..Len(filterCategories) : ClearHierarchySelection(c)
    \/ \E c \in 1..Len(filterCategories) : HeaderClick(c)
    \/ \E c \in 1..Len(filterCategories) :
          \E n \in Nodes(filterCategories[c].hierarchyLevels) :
              ExpandClick(c, n[1], n[2])

SpecFrame == InitFrame /\ [][NextFrame]_vars

-----------------------------------------------------------------------------
(* Vocabulary of the properties *)

Categories == 1..Len(filterCategories)
Hierarchies == {c \in Categories : filterCategories[c].isHierarchy}
Standalones == {c \in Categories : ~filterCategories[c].isHierarchy}

LevelsOf(c) == filterCategories[c].hierarchyLevels

\* Every value node of a category, of a list of categories.
NodesOfCategory(cat) ==
    Range(cat.values)
    \cup UNION {Range(cat.hierarchyLevels[l].values) : l \in 1..Len(cat.hierarchyLevels)}

AllValueNodes == UNION {NodesOfCategory(filterCategories[c]) : c \in Categories}

\* The child nodes of the node n = <<level, key>>.
ChildNodes(levels, n) ==
    LET node == NodeAt(levels, n[1], n[2])
    IN  [i \in 1..Len(node.children) |-> NodeAt(levels, n[1] + 1, node.children[i])]

ChildrenOf(levels, n) ==
    {<<n[1] + 1, k>> : k \in Range(NodeAt(levels, n[1], n[2]).children)}

\* The nodes below n, through children.
RECURSIVE Descendants(_, _)
Descendants(levels, n) ==
    ChildrenOf(levels, n) \cup UNION {Descendants(levels, m) : m \in ChildrenOf(levels, n)}

\* The nodes that have n below them.
Ancestors(levels, n) == {m \in Nodes(levels) : n \in Descendants(levels, m)}

KeysOfLevel(levels, l) == {levels[l].values[i].value : i \in 1..Len(levels[l].values)}

\* Every key occurs at only one level and every child key has exactly one parent.
TreeShaped(levels) ==
    /\ \A l1, l2 \in 1..Len(levels) :
          l1 # l2 => KeysOfLevel(levels, l1) \cap KeysOfLevel(levels, l2) = {}
    /\ \A n \in Nodes(levels) :
          n[1] > 0 => Cardinality({m \in Nodes(levels) : n \in ChildrenOf(levels, m)}) = 1

AllSelected(kids) == \A i \in 1..Len(kids) : kids[i].selected
SomeMarked(kids) == \E i \in 1..Len(kids) : kids[i].selected \/ kids[i].indeterminate

ToggledHierarchy == lastOp.op = "toggleHierarchyValue"
ToggledNode == <<lastOp.level, lastOp.value>>

-----------------------------------------------------------------------------
(* Properties *)

\* C1: no value node is selected and indeterminate at the same time, in any
\* state reached by updates, toggles and clears.
C1_SelectedNotIndeterminate ==
    \A node \in AllValueNodes : ~(node.selected /\ node.indeterminate)

\* C2: tri-state correctness after an update and any sequence of toggles: a node
\* with children is selected iff all its children are, and indeterminate iff a
\* child is selected or indeterminate and not all children are selected.
C2_TriStateCorrect ==
    \A c \in Hierarchies : \A n \in Nodes(LevelsOf(c)) :
        LET node == NodeAt(LevelsOf(c), n[1], n[2])
            kids == ChildNodes(LevelsOf(c), n)
        IN  Len(kids) > 0 =>
                /\ node.selected <=> AllSelected(kids)
                /\ node.indeterminate <=> (SomeMarked(kids) /\ ~AllSelected(kids))

\* The flags the recomputation rule derives from a node's immediate children.
DerivedSelected(kids) == AllSelected(kids)
DerivedIndeterminate(kids) == ~AllSelected(kids) /\ SomeMarked(kids)

\* C3: in a hierarchy whose keys occur at one level only and whose child keys have
\* one parent, right after toggle(node) every ancestor of node has the flags
\* derived from its immediate children.
C3_AncestorsRecomputed ==
    (ToggledHierarchy /\ TreeShaped(LevelsOf(lastOp.cat))) =>
        \A a \in Ancestors(LevelsOf(lastOp.cat), ToggledNode) :
            LET node == NodeAt(LevelsOf(lastOp.cat), a[1], a[2])
                kids == ChildNodes(LevelsOf(lastOp.cat), a)
            IN  /\ node.selected = DerivedSelected(kids)
                /\ node.indeterminate = DerivedIndeterminate(kids)

\* C4: right after a toggle that sets the node's selected flag to v, every
\* descendant of the node is selected = v and not indeterminate.
C4_CascadeReachesDescendants ==
    ToggledHierarchy =>
        \A d \in Descendants(LevelsOf(lastOp.cat), ToggledNode) :
            LET node == NodeAt(LevelsOf(lastOp.cat), d[1], d[2])
            IN  /\ node.selected =
                      NodeAt(LevelsOf(lastOp.cat), lastOp.level, lastOp.value).selected
                /\ ~node.indeterminate

\* A toggle has just selected a first-level node that has grandchildren.
C4_Witness ==
    /\ ToggledHierarchy
    /\ lastOp.level = 0
    /\ NodeAt(LevelsOf(lastOp.cat), 0, lastOp.value).selected
    /\ \E d \in Descendants(LevelsOf(lastOp.cat), ToggledNode) : d[1] = 2

FlagsOf(levels, m) ==
    <<NodeAt(levels, m[1], m[2]).selected, NodeAt(levels, m[1], m[2]).indeterminate>>

\* The flags of a hierarchy after toggle(n); toggle(n).
ToggledTwice(levels, n) == ToggledLevels(ToggledLevels(levels, n[1], n[2]), n[1], n[2])

\* n, its subtree and the nodes above it.
Region(levels, n) == {n} \cup Descendants(levels, n) \cup Ancestors(levels, n)

RestoredAt(levels, n, m) == FlagsOf(ToggledTwice(levels, n), m) = FlagsOf(levels, m)

\* Every descendant of n has n's selected value and is not indeterminate.
Uniform(levels, n) ==
    \A d \in Descendants(levels, n) :
        FlagsOf(levels, d) = <<NodeAt(levels, n[1], n[2]).selected, FALSE>>

\* The flags of a are the ones derived from its children.
Consistent(levels, a) ==
    FlagsOf(levels, a) = <<DerivedSelected(ChildNodes(levels, a)),
                           DerivedIndeterminate(ChildNodes(levels, a))>>

ClickableNodes(c) == {n \in Nodes(LevelsOf(c)) : Attached(LevelsOf(c), n[1], n[2])}

\* C5 as claimed: from every reachable state, toggle(n) twice restores the flags
\* of n, of n's subtree and of n's ancestors, partially selected subtrees included.
C5_ToggleInvolution ==
    \A c \in Hierarchies : \A n \in ClickableNodes(c) :
        \A m \in Region(LevelsOf(c), n) : RestoredAt(LevelsOf(c), n, m)

\* C5 as amended: toggle(n) twice restores n's own flags; it restores n's subtree
\* exactly when every descendant had n's selected value and was not
\* indeterminate; and when moreover every ancestor carried the flags derived
\* from its children, it restores the ancestors too.
C5_ToggleInvolutionUniform ==
    \A c \in Hierarchies : \A n \in ClickableNodes(c) :
        LET levels == LevelsOf(c)
        IN  /\ RestoredAt(levels, n, n)
            /\ Uniform(levels, n) <=>
                   \A m \in Descendants(levels, n) : RestoredAt(levels, n, m)
            /\ (Uniform(levels, n) /\ \A a \in Ancestors(levels, n) : Consistent(levels, a))
                   => \A m \in Region(levels, n) : RestoredAt(levels, n, m)

\* The same node was toggled twice in a row: it has children, all back at its
\* own value, and a consistent node above it.
C5_Witness ==
    /\ ToggledHierarchy
    /\ lastOp.repeat
    /\ Descendants(LevelsOf(lastOp.cat), ToggledNode) # {}
    /\ Ancestors(LevelsOf(lastOp.cat), ToggledNode) # {}
    /\ Uniform(LevelsOf(lastOp.cat), ToggledNode)
    /\ \A a \in Ancestors(LevelsOf(lastOp.cat), ToggledNode) :
          Consistent(LevelsOf(lastOp.cat), a)

\* The identities of the selected nodes of these categories.
SelectedIdentities(cats) ==
    {node.identity :
        node \in {m \in UNION {NodesOfCategory(filterCategories[c]) : c \in cats} : m.selected}}

\* The selection manager was handed exactly these identities, or a clear when
\* there are none.
Submitted(ids) ==
    /\ selectionManager.ids = ids
    /\ selectionManager.call = IF ids = {} THEN "clear" ELSE "select"

\* C6: after a hierarchy toggle the submitted identities are those of all selected
\* nodes of every group (all levels of every hierarchy, every standalone
\* filter); a clear is sent when there are none.
C6_HierarchyToggleEmitsAll ==
    ToggledHierarchy => Submitted(SelectedIdentities(Categories))

\* C7: after a standalone toggle the submitted identities are those of all
\* selected nodes of every group, hierarchy nodes included; a clear is sent when
\* there are none.
C7_StandaloneToggleEmitsAll ==
    lastOp.op = "toggleSelection" => Submitted(SelectedIdentities(Categories))

Cleared == lastOp.op \in {"clearCategorySelection", "clearHierarchySelection"}

\* C8: after clearGroup(G) every node of G (every level of a hierarchy) is not
\* selected and not indeterminate.
C8_ClearResetsFlags ==
    Cleared =>
        \A node \in NodesOfCategory(filterCategories[lastOp.cat]) :
            ~node.selected /\ ~node.indeterminate

\* C9: after clearGroup(G) the submitted identities are those of the selected
\* nodes of every group other than G, and none of G's; a clear is sent when
\* there are none.
C9_ClearEmitsOthers ==
    Cleared =>
        /\ Submitted(SelectedIdentities(Categories \ {lastOp.cat}))
        /\ \A node \in NodesOfCategory(filterCategories[lastOp.cat]) :
               node.identity \notin selectionManager.ids

\* The canonical key of a cell, as the specification gives it: "(Blank)" for a
\* null cell, the decimal text of the number 1, the text itself otherwise.
CanonicalKey(cell) ==
    IF cell.t = "null" THEN <<"(", "B", "l", "a", "n", "k", ")">>
    ELSE IF cell.t = "number" /\ cell.v = 1 THEN <<"1">>
    ELSE cell.v

\* The row (from 1) of the first cell of a column with this key.
FirstRow(keys, k) ==
    CHOOSE i \in 1..Len(keys) : keys[i] = k /\ \A j \in 1..(i - 1) : keys[j] # k

\* The value lists rebuilt for the field with this display name: that of the
\* standalone filter, or of the hierarchy level, that carries the name.
ListsNamed(name) ==
    {filterCategories[c].values : c \in {d \in Standalones : filterCategories[d].name = name}}
    \cup UNION {{LevelsOf(c)[l].values : l \in {m \in 1..Len(LevelsOf(c)) : LevelsOf(c)[m].name = name}} :
                   c \in Hierarchies}

Rebuilt == lastOp.op = "update" /\ IsSome(dataView)

-----------------------------------------------------------------------------
(* Properties of a rebuilt hierarchy, stated on the rows of the data view *)

Fields == dataView[1].categories

\* The column of the data view that the level l (from 1) of hierarchy c was built
\* from: the field with the level's name.
ColumnOfLevel(c, l) ==
    CHOOSE col \in 1..Len(Fields) :
        Fields[col].source.displayName = Some(LevelsOf(c)[l].name)

\* The canonical key of row r (from 1) of a column; a missing cell is blank.
KeyAt(col, r) ==
    IF r <= Len(Fields[col].values) THEN CanonicalKey(Fields[col].values[r])
    ELSE <<"(", "B", "l", "a", "n", "k", ")">>

\* The length of the longest level column of hierarchy c.
LongestColumn(c) ==
    LET lens == {Len(Fields[ColumnOfLevel(c, l)].values) : l \in 1..Len(LevelsOf(c))}
    IN  CHOOSE n \in lens : \A m \in lens : m <= n

AlignedColumns(c) ==
    \A l \in 1..Len(LevelsOf(c)) :
        Len(Fields[ColumnOfLevel(c, l)].values) = LongestColumn(c)

\* The rows in which key p at level l (from 1) meets key ch at level l + 1.
PairRows(c, l, p, ch) ==
    {r \in 1..LongestColumn(c) :
        KeyAt(ColumnOfLevel(c, l), r) = p /\ KeyAt(ColumnOfLevel(c, l + 1), r) = ch}

FirstPairRow(c, l, p, ch) ==
    CHOOSE r \in PairRows(c, l, p, ch) : \A q \in PairRows(c, l, p, ch) : r <= q

\* The keys of the children of the node p of level l (from 1).
ChildKeys(c, l, p) == NodeAt(LevelsOf(c), l - 1, p).children

\* C11: after rebuilding a hierarchy whose level columns have the same length,
\* for every adjacent pair of levels, p has ch among its children iff some row
\* has the key p at the upper level and the key ch at the lower level.
C11_EdgesAreCoOccurrence ==
    Rebuilt =>
        \A c \in Hierarchies :
            AlignedColumns(c) =>
                \A l \in 1..(Len(LevelsOf(c)) - 1) :
                    \A p \in KeysOfLevel(LevelsOf(c), l) :
                        \A ch \in KeysOfLevel(LevelsOf(c), l + 1) :
                            (ch \in Range(ChildKeys(c, l, p))) <=> (PairRows(c, l, p, ch) # {})

\* Rows (a, a), (a, b), (b, c): roots [a, b], a.children = [a, b], b.children = [c].
C11_Witness ==
    /\ Rebuilt
    /\ \E c \in Hierarchies :
          /\ Len(LevelsOf(c)) = 2
          /\ [i \in 1..Len(LevelsOf(c)[1].values) |-> LevelsOf(c)[1].values[i].value]
                 = << <<"a">>, <<"b">> >>
          /\ ChildKeys(c, 1, <<"a">>) = << <<"a">>, <<"b">> >>
          /\ ChildKeys(c, 1, <<"b">>) = << <<"c">> >>

\* The level columns and the level lists of hierarchy c, as the link pass sees them.
ColumnsOf(c) == [l \in 1..Len(LevelsOf(c)) |-> Fields[ColumnOfLevel(c, l)]]
ValuesByLevelOf(c) == [l \in 1..Len(LevelsOf(c)) |-> LevelsOf(c)[l].values]

ParentKeys(c, l, ch) ==
    {p \in KeysOfLevel(LevelsOf(c), l) : ch \in Range(ChildKeys(c, l, p))}

\* The rows in which the key ch occurs at level l (from 1).
RowsOfKey(c, l, ch) ==
    {r \in 1..LongestColumn(c) : KeyAt(ColumnOfLevel(c, l), r) = ch}

\* C13 as claimed, for hierarchies with aligned columns: the parentKey of every
\* node of a lower level is the upper-level key of the last row in which the
\* node's key occurs; root-level nodes have none.
C13_ParentKeyOfLastRow ==
    Rebuilt =>
        \A c \in Hierarchies :
            AlignedColumns(c) =>
                /\ \A node \in Range(LevelsOf(c)[1].values) : node.parentValue = None
                /\ \A l \in 1..(Len(LevelsOf(c)) - 1) :
                      \A node \in Range(LevelsOf(c)[l + 1].values) :
                          LET rows == RowsOfKey(c, l + 1, node.value)
                              last == CHOOSE r \in rows : \A q \in rows : q <= r
                          IN  node.parentValue = Some(KeyAt(ColumnOfLevel(c, l), last))

\* C13 as amended: a node of a lower level that no node has among its children
\* has no parentKey; otherwise its parentKey is, among the parents that have it
\* as a child, the one whose first row with it comes last (a row that repeats a
\* pair linked before does not change it); root-level nodes have none.
C13_ParentKeyOfLastNewLink ==
    Rebuilt =>
        \A c \in Hierarchies :
            /\ \A node \in Range(LevelsOf(c)[1].values) : node.parentValue = None
            /\ \A l \in 1..(Len(LevelsOf(c)) - 1) :
                  \A node \in Range(LevelsOf(c)[l + 1].values) :
                      LET parents == ParentKeys(c, l, node.value)
                      IN  IF parents = {} THEN node.parentValue = None
                          ELSE node.parentValue =
                                   Some(CHOOSE p \in parents :
                                           \A q \in parents :
                                               FirstPairRow(c, l, q, node.value)
                                                   <= FirstPairRow(c, l, p, node.value))

\* Rows (a, c), (b, c), (a, c): c is a child of a and of b, the last row repeats
\* the first pair, and the parentKey of c is b.
C13_Witness ==
    /\ Rebuilt
    /\ \E c \in Hierarchies :
          /\ Len(LevelsOf(c)) = 2
          /\ LongestColumn(c) = 3
          /\ AlignedColumns(c)
          /\ \A r \in 1..3 : KeyAt(ColumnOfLevel(c, 2), r) = <<"c">>
          /\ KeyAt(ColumnOfLevel(c, 1), 1) = <<"a">>
          /\ KeyAt(ColumnOfLevel(c, 1), 2) = <<"b">>
          /\ KeyAt(ColumnOfLevel(c, 1), 3) = <<"a">>
          /\ NodeAt(LevelsOf(c), 1, <<"c">>).parentValue = Some(<<"b">>)

\* C19: right after a rebuild from a data view no node of any group is selected
\* or indeterminate, whatever was selected before.
C19_FreshAfterRebuild ==
    Rebuilt => \A node \in AllValueNodes : ~node.selected /\ ~node.indeterminate

\* A rebuild while the selection manager holds the identities submitted by an
\* earlier click: nodes with the same keys were selected before.
C19_Witness ==
    /\ Rebuilt
    /\ AllValueNodes # {}
    /\ selectionManager.call = "select"
    /\ \E node \in AllValueNodes : node.identity \in selectionManager.ids

\* C20: when the level columns of a hierarchy have different lengths, every row
\* up to the length of the longest column is linked: at each pair of adjacent
\* levels the row's keys (a missing cell being "(Blank)") have nodes, and the
\* lower one is a child of the upper one.
C20_RaggedRowsLinked ==
    Rebuilt =>
        \A c \in Hierarchies :
            ~AlignedColumns(c) =>
                \A r \in 1..LongestColumn(c) :
                    \A l \in 1..(Len(LevelsOf(c)) - 1) :
                        LET p == KeyAt(ColumnOfLevel(c, l), r)
                            ch == KeyAt(ColumnOfLevel(c, l + 1), r)
                        IN  /\ p \in KeysOfLevel(LevelsOf(c), l)
                            /\ ch \in KeysOfLevel(LevelsOf(c), l + 1)
                            /\ ch \in Range(ChildKeys(c, l, p))

-----------------------------------------------------------------------------
(* Properties of the grouping, stated on the field list *)

\* The lineage key of a field: the part of its queryName before the first dot;
\* none when the queryName is absent or empty.
LineageKey(field) ==
    LET q == field.source.queryName
    IN  IF Len(q) = 0 THEN None
        ELSE IF Len(q[1]) = 0 THEN None
        ELSE LET dots == {i \in 1..Len(q[1]) : q[1][i] = "."} \cup {Len(q[1]) + 1}
                 first == CHOOSE i \in dots : \A j \in dots : i <= j
             IN  Some(SubSeq(q[1], 1, first - 1))

\* The columns a group was built from, read off the identities of its nodes
\* (every column of the grouping inputs has one cell, so every list one node).
ColumnsOfGroup(c) ==
    IF filterCategories[c].isHierarchy
    THEN [l \in 1..Len(LevelsOf(c)) |-> LevelsOf(c)[l].values[1].identity.category]
    ELSE <<filterCategories[c].values[1].identity.category>>

\* C14: every field lands in exactly one group; two fields are in one group iff
\* they are the same field or have the same lineage key; a group of several
\* fields is a hierarchy with its levels in field order, a group of one field
\* is standalone; the groups come in the order of their first fields and carry
\* the order values 0..n-1.
C14_GroupingPartition ==
    Rebuilt =>
        /\ \A c \in Categories :
              /\ filterCategories[c].isHierarchy => filterCategories[c].values = <<>>
              /\ ~filterCategories[c].isHierarchy =>
                      Len(filterCategories[c].values) = 1 /\ LevelsOf(c) = <<>>
              /\ \A l \in 1..Len(LevelsOf(c)) : Len(LevelsOf(c)[l].values) = 1
        /\ \A col \in 1..Len(Fields) :
              Cardinality({<<c, l>> \in UNION {{<<d, k>> : k \in 1..Len(ColumnsOfGroup(d))} :
                                                d \in Categories} :
                              ColumnsOfGroup(c)[l] = col}) = 1
        /\ \A c, d \in Categories :
              \A i \in 1..Len(ColumnsOfGroup(c)) : \A j \in 1..Len(ColumnsOfGroup(d)) :
                  LET f == ColumnsOfGroup(c)[i]
                      g == ColumnsOfGroup(d)[j]
                  IN  (c = d) <=> \/ f = g
                                  \/ /\ LineageKey(Fields[f]) # None
                                     /\ LineageKey(Fields[f]) = LineageKey(Fields[g])
        /\ \A c \in Categories :
              /\ filterCategories[c].isHierarchy <=> Len(ColumnsOfGroup(c)) > 1
              /\ \A i, j \in 1..Len(ColumnsOfGroup(c)) :
                    i < j => ColumnsOfGroup(c)[i] < ColumnsOfGroup(c)[j]
              /\ filterCategories[c].order = c - 1
        /\ \A c, d \in Categories :
              c < d => ColumnsOfGroup(c)[1] < ColumnsOfGroup(d)[1]

\* The field list T.C, a field named C without lineage key, T.S: the hierarchy of
\* the first and third fields comes first, the unkeyed field stays alone.
C14_Witness ==
    /\ Rebuilt
    /\ Len(Fields) = 3
    /\ Fields[1].source = TC /\ Fields[2].source = NC /\ Fields[3].source = TS
    /\ Len(filterCategories) = 2
    /\ filterCategories[1].isHierarchy /\ ColumnsOfGroup(1) = <<1, 3>>
    /\ ~filterCategories[2].isHierarchy /\ ColumnsOfGroup(2) = <<2>>
    /\ filterCategories[1].name = filterCategories[2].name

-----------------------------------------------------------------------------
(* Properties of searching, collapsing and expanding *)

\* The node's own key contains the term, whatever the case of the letters.
OwnMatch(key, term) == Includes(ToLowerCase(key), ToLowerCase(term))

\* matches(node, term) as the specification defines it, unfolded: the term is
\* empty, or the node's own key or the key of a node below it contains the term.
Matches(levels, n, term) ==
    \/ Len(term) = 0
    \/ OwnMatch(n[2], term)
    \/ \E d \in Descendants(levels, n) : OwnMatch(d[2], term)

\* C15: for every hierarchy and term, a node above a node that matches the term
\* matches it too, and the empty term matches every node.
C15_SearchMonotone ==
    \A c \in Hierarchies : \A term \in SearchTerms :
        \A n \in Nodes(LevelsOf(c)) :
            /\ Len(term) = 0 =>
                   MatchesSearchRecursive(LevelsOf(c), n[1], n[2], term)
            /\ MatchesSearchRecursive(LevelsOf(c), n[1], n[2], term) =>
                   \A a \in Ancestors(LevelsOf(c), n) :
                       MatchesSearchRecursive(LevelsOf(c), a[1], a[2], term)

SearchedFor == lastOp.op = "searchInput" /\ Len(lastOp.value) > 0

\* A search for a term that the key of a third-level node contains and the keys
\* of the two nodes above it do not.
C15_Witness ==
    /\ SearchedFor
    /\ \E n \in Nodes(LevelsOf(lastOp.cat)) :
          /\ n[1] = 2
          /\ OwnMatch(n[2], lastOp.value)
          /\ Cardinality(Ancestors(LevelsOf(lastOp.cat), n)) = 2
          /\ \A a \in Ancestors(LevelsOf(lastOp.cat), n) :
                /\ ~OwnMatch(a[2], lastOp.value)
                /\ MatchesSearchRecursive(LevelsOf(lastOp.cat), a[1], a[2], lastOp.value)

\* C16: after a hierarchy is drawn with a non-empty term, the drawn roots are
\* the roots that match; every matching node with children has its expansion
\* key set; every node whose own key contains the term is drawn, with every
\* node above it; and no node that does not match is drawn.
C16_SearchReveals ==
    SearchedFor =>
        LET category == filterCategories[lastOp.cat]
            levels == category.hierarchyLevels
            term == lastOp.value
            drawn == RenderTree(category, expandedNodes, term)
        IN  /\ {n \in drawn : n[1] = 0}
                   = {n \in Nodes(levels) : n[1] = 0 /\ Matches(levels, n, term)}
            /\ \A n \in Nodes(levels) :
                  (Matches(levels, n, term) /\ ChildrenOf(levels, n) # {})
                      => IsExpanded(expandedNodes, category.name,
                                    NodeKey(category.name, n[1], n[2]))
            /\ \A n \in Nodes(levels) :
                  (OwnMatch(n[2], term) /\ Attached(levels, n[1], n[2]))
                      => /\ n \in drawn
                         /\ \A a \in Ancestors(levels, n) : a \in drawn
            /\ \A n \in drawn : Matches(levels, n, term)

\* The term "aP" on roots F and V, F with the children Ap and B, V with the child
\* B: F and Ap are drawn, V and B are not, and F is expanded.
C16_Witness ==
    /\ SearchedFor
    /\ lastOp.value = <<"a", "P">>
    /\ Len(LevelsOf(lastOp.cat)) = 2
    /\ KeysOfLevel(LevelsOf(lastOp.cat), 1) = {<<"F">>, <<"V">>}
    /\ ChildKeys(lastOp.cat, 1, <<"F">>) = << <<"A", "p">>, <<"B">> >>
    /\ ChildKeys(lastOp.cat, 1, <<"V">>) = << <<"B">> >>
    /\ RenderTree(filterCategories[lastOp.cat], expandedNodes, lastOp.value)
           = {<<0, <<"F">> >>, <<1, <<"A", "p">> >>}
    /\ IsExpanded(expandedNodes, filterCategories[lastOp.cat].name,
                  NodeKey(filterCategories[lastOp.cat].name, 0, <<"F">>))

\* The expanded set held for a group name; empty when the name has no entry.
ExpansionKeysOf(name) == IF name \in DOMAIN expandedNodes THEN expandedNodes[name] ELSE {}

\* The nodes of a hierarchy that the matcher accepts, and those with an accepted
\* node below them.
Matching(levels, term) ==
    {n \in Nodes(levels) : MatchesSearchRecursive(levels, n[1], n[2], term)}

WithMatchBelow(levels, term) ==
    {n \in Nodes(levels) : Descendants(levels, n) \cap Matching(levels, term) # {}}

KeysOf(c, nodes) == {NodeKey(filterCategories[c].name, n[1], n[2]) : n \in nodes}

\* C26 as claimed: for every non-empty term, a node with children matches exactly
\* when a node below it matches, and the keys the search expands are keys of
\* nodes with a matching node below them.
C26_MatchIffDescendantMatches ==
    \A c \in Hierarchies : \A term \in SearchTerms \ {<<>>} :
        /\ \A n \in Nodes(LevelsOf(c)) :
              ChildrenOf(LevelsOf(c), n) # {} =>
                  (n \in Matching(LevelsOf(c), term)
                      <=> n \in WithMatchBelow(LevelsOf(c), term))
        /\ AutoExpandedKeys(filterCategories[c], term)
               \subseteq KeysOf(c, WithMatchBelow(LevelsOf(c), term))

\* C26 as amended: for every non-empty term, a node with children matches exactly
\* when its own key contains the term or a node below it matches; the keys the
\* search expands are the keys of all matching nodes, leaves included, and
\* after the search they are in the expanded set.
C26_MatchIffOwnOrDescendant ==
    \A c \in Hierarchies : \A term \in SearchTerms \ {<<>>} :
        /\ \A n \in Nodes(LevelsOf(c)) :
              ChildrenOf(LevelsOf(c), n) # {} =>
                  (n \in Matching(LevelsOf(c), term)
                      <=> (OwnMatch(n[2], term) \/ n \in WithMatchBelow(LevelsOf(c), term)))
        /\ AutoExpandedKeys(filterCategories[c], term)
               = KeysOf(c, Matching(LevelsOf(c), term))
        /\ (SearchedFor /\ lastOp.cat = c /\ lastOp.value = term) =>
               KeysOf(c, Matching(LevelsOf(c), term))
                   \subseteq ExpansionKeysOf(filterCategories[c].name)

\* A search has just run whose term is in the key of a node with children and
\* in no key below it; the node is in the expanded set, and so is a leaf, put
\* there by a search that it matched.
C26_Witness ==
    /\ SearchedFor
    /\ \E n \in Nodes(LevelsOf(lastOp.cat)) :
          /\ ChildrenOf(LevelsOf(lastOp.cat), n) # {}
          /\ OwnMatch(n[2], lastOp.value)
          /\ n \notin WithMatchBelow(LevelsOf(lastOp.cat), lastOp.value)
          /\ KeysOf(lastOp.cat, {n}) \subseteq ExpansionKeysOf(filterCategories[lastOp.cat].name)
    /\ \E n \in Nodes(LevelsOf(lastOp.cat)) :
          /\ ChildrenOf(LevelsOf(lastOp.cat), n) = {}
          /\ KeysOf(lastOp.cat, {n}) \subseteq ExpansionKeysOf(filterCategories[lastOp.cat].name)

\* C17: a group whose name was collapsed by the last click on its header, with
\* any rebuilds since, is collapsed in every store that holds a group of that
\* name.
C17_CollapsePersists ==
    \A c \in Categories :
        filterCategories[c].name \in keptCollapsed => filterCategories[c].collapsed

\* The expansion keys held for a group name; none when the name has no entry.
ExpansionKeys(expanded, name) == IF name \in DOMAIN expanded THEN expanded[name] ELSE {}

\* C18: a rebuild, with any input, leaves the expansion keys of every group name
\* as they were.
C18_ExpansionKeysKept ==
    [][lastOp'.op = "update" =>
          \A name \in (DOMAIN expandedNodes) \cup (DOMAIN expandedNodes') :
              ExpansionKeys(expandedNodes', name) = ExpansionKeys(expandedNodes, name)]_vars

\* A rebuild has just run while a node of the rebuilt hierarchy, with children,
\* has its expansion key set from before.
C18_Witness ==
    /\ Rebuilt
    /\ ~lastOp.repeat
    /\ \E c \in Hierarchies : \E n \in Nodes(LevelsOf(c)) :
          /\ ChildrenOf(LevelsOf(c), n) # {}
          /\ IsExpanded(expandedNodes, filterCategories[c].name,
                        NodeKey(filterCategories[c].name, n[1], n[2]))

-----------------------------------------------------------------------------
(* Properties of updates without input *)

\* The last update had no data view, or a data view with an empty field list.
UpdatedWithoutFields ==
    /\ lastOp.op = "update"
    /\ IF IsSome(dataView) THEN Len(dataView[1].categories) = 0 ELSE TRUE

\* C21: after an update whose input is absent or has an empty field list, the
\* store holds no group, whatever it held before.
C21_EmptyInputEmptiesStore ==
    UpdatedWithoutFields => Len(filterCategories) = 0

-----------------------------------------------------------------------------
(* Properties of the steps of a toggle *)

\* C22: for every hierarchy of the store and every node that can be clicked, the
\* cascade of toggle(node) assigns finitely many children, each at a level below
\* the node's, and the upward recomputation makes finitely many steps, each on a
\* node at a strictly lower level index than the step before (the first one
\* lower than the node's).
C22_ToggleTerminates ==
    \A c \in Hierarchies : \A n \in ClickableNodes(c) :
        LET levels == LevelsOf(c)
            down == CascadeLevels(levels, n[1], n[2], Len(levels) + 1)
            up == <<n[1]>> \o ToggleUpwardLevels(levels, n[1], n[2])
        IN  /\ \A i \in 1..Len(down) : down[i] > n[1] /\ down[i] < Len(levels)
            /\ \A i \in 2..Len(up) : up[i] >= 0 /\ up[i] < up[i - 1]

\* A toggle has just run on a third-level node of a hierarchy in which a key
\* occurs at two levels and a child has two parents; its upward recomputation
\* took two steps.
C22_Witness ==
    /\ ToggledHierarchy
    /\ lastOp.level = 2
    /\ ~TreeShaped(LevelsOf(lastOp.cat))
    /\ \E l1, l2 \in 1..Len(LevelsOf(lastOp.cat)) :
          l1 # l2 /\ KeysOfLevel(LevelsOf(lastOp.cat), l1)
                        \cap KeysOfLevel(LevelsOf(lastOp.cat), l2) # {}
    /\ \E n \in Nodes(LevelsOf(lastOp.cat)) :
          Cardinality({m \in Nodes(LevelsOf(lastOp.cat)) :
                          n \in ChildrenOf(LevelsOf(lastOp.cat), m)}) > 1
    /\ ToggleUpwardLevels(LevelsOf(lastOp.cat), 2, lastOp.value) = <<1, 0>>

\* C25: right after toggle(node), every step of the upward recomputation was on
\* the level immediately above the node of the step before (the first one on
\* the level immediately above the toggled node), where the node's parent is.
C25_UpwardTargetsParent ==
    ToggledHierarchy =>
        LET up == <<lastOp.level>>
                  \o ToggleUpwardLevels(LevelsOf(lastOp.cat), lastOp.level, lastOp.value)
        IN  \A i \in 2..Len(up) : up[i] = up[i - 1] - 1

-----------------------------------------------------------------------------
(* Properties of Clear on every category *)

\* C23: when Clear has been clicked on every category of the store, in any
\* order, with no update or toggle in between, no node of any category is
\* selected and the selection manager was last told to clear.
C23_ClearAll ==
    (Cleared /\ clearedSince = Categories) =>
        /\ \A node \in AllValueNodes : ~node.selected
        /\ selectionManager = [call |-> "clear", ids |-> {}]

\* Clear has been clicked on both categories of a store, a hierarchy among them
\* in which a parent is still marked indeterminate from the selection that was
\* cleared.
C23_Witness ==
    /\ Cleared
    /\ clearedSince = Categories
    /\ Cardinality(Categories) = 2
    /\ \E c \in Hierarchies : \E node \in NodesOfCategory(filterCategories[c]) :
          node.indeterminate

-----------------------------------------------------------------------------
(* Properties of the menu *)

\* The flag and the three class lists agree.
MenuConsistent ==
    /\ isMenuOpen <=> "open" \in menuPanel
    /\ isMenuOpen <=> "visible" \in overlay
    /\ isMenuOpen <=> "hidden" \in burgerButton

MenuEvents == {"burgerClick", "closeButtonClick", "overlayClick"}

\* What a click on the burger, the close button or the overlay does.
MenuStep ==
    lastOp'.op \in MenuEvents =>
        /\ IF lastOp'.op = "burgerClick" THEN isMenuOpen' = ~isMenuOpen ELSE ~isMenuOpen'
        /\ UNCHANGED <<filterCategories, expandedNodes, selectionManager>>

\* C24: isMenuOpen is true exactly when the panel has class open, the overlay
\* class visible and the burger button class hidden; a click on the burger
\* flips the flag, a click on the close button or the overlay leaves the menu
\* closed, and none of the three changes the store, the expanded nodes or the
\* selection.
C24_MenuStateMachine == []MenuConsistent /\ [][MenuStep]_vars

\* The menu has just been opened over a store with a selected node, a collapsed
\* category or an expanded node.
C24_Witness ==
    /\ lastOp.op = "burgerClick"
    /\ isMenuOpen
    /\ MenuConsistent
    /\ \E node \in AllValueNodes : node.selected
    /\ \E name \in DOMAIN expandedNodes : expandedNodes[name] # {}

-----------------------------------------------------------------------------
(* Frame properties of the selection operations *)

\* The selected and indeterminate flags of every node of a list of categories:
\* per category, those of its value list and those of each of its levels.
FlagsOfValues(values) ==
    [i \in 1..Len(values) |-> <<values[i].selected, values[i].indeterminate>>]

FlagsOfCategory(cat) ==
    [values |-> FlagsOfValues(cat.values),
     levels |-> [l \in 1..Len(cat.hierarchyLevels) |->
                    FlagsOfValues(cat.hierarchyLevels[l].values)]]

FlagsIn(cats) == [c \in 1..Len(cats) |-> FlagsOfCategory(cats[c])]

\* No node of a standalone filter is indeterminate, has children or a parentKey.
StandaloneFlat ==
    \A c \in Standalones : \A i \in 1..Len(filterCategories[c].values) :
        LET node == filterCategories[c].values[i]
        IN  ~node.indeterminate /\ Len(node.children) = 0 /\ ~IsSome(node.parentValue)

\* A standalone toggle flips the selected flag of its value and changes no other
\* flag of any category.
StandaloneToggleStep ==
    lastOp'.op = "toggleSelection" =>
        LET c == lastOp'.cat
            i == IndexOfValue(filterCategories[c].values, lastOp'.value)
        IN  FlagsIn(filterCategories') =
                [FlagsIn(filterCategories) EXCEPT ![c].values[i] = <<~@[1], @[2]>>]

\* C27: toggling a value of a standalone filter flips that value's selected flag
\* and changes no other node's selected or indeterminate flag in any group; in
\* every reachable state no node of a standalone filter is indeterminate or has
\* children or a parentKey.
C27_StandaloneToggleOneFlag == []StandaloneFlat /\ [][StandaloneToggleStep]_vars

\* A value of a standalone filter with several values has just been toggled
\* while another value of the filter and a node of a hierarchy are selected.
C27_Witness ==
    /\ lastOp.op = "toggleSelection"
    /\ \E i \in 1..Len(filterCategories[lastOp.cat].values) :
          /\ filterCategories[lastOp.cat].values[i].value # lastOp.value
          /\ filterCategories[lastOp.cat].values[i].selected
    /\ \E c \in Hierarchies : \E node \in NodesOfCategory(filterCategories[c]) :
          node.selected

\* C28: toggle(node) changes the flags of node, of the nodes below it and of the
\* nodes above it only; every other node of the hierarchy keeps its flags.
C28_ToggleLocal ==
    [][lastOp'.op = "toggleHierarchyValue" =>
          LET levels == filterCategories[lastOp'.cat].hierarchyLevels
              after == filterCategories'[lastOp'.cat].hierarchyLevels
              n == <<lastOp'.level, lastOp'.value>>
          IN  \A m \in Nodes(levels) \ Region(levels, n) :
                  FlagsOf(after, m) = FlagsOf(levels, m)]_vars

SelectionOps ==
    {"toggleHierarchyValue", "toggleSelection",
     "clearCategorySelection", "clearHierarchySelection"}

\* C29: a hierarchy toggle, a standalone toggle or a Clear on a group leaves the
\* selected and indeterminate flags of every node of every other group, the
\* collapsed flag of every group and the expansion keys of every group name as
\* they were.
C29_SelectionOpsFrame ==
    [][lastOp'.op \in SelectionOps =>
          /\ Len(filterCategories') = Len(filterCategories)
          /\ \A d \in Categories \ {lastOp'.cat} :
                FlagsOfCategory(filterCategories'[d]) = FlagsOfCategory(filterCategories[d])
          /\ \A d \in Categories :
                filterCategories'[d].collapsed = filterCategories[d].collapsed
          /\ \A name \in (DOMAIN expandedNodes) \cup (DOMAIN expandedNodes') :
                ExpansionKeys(expandedNodes', name) = ExpansionKeys(expandedNodes, name)]_vars

\* A Clear has just run on a standalone filter while a node of another group is
\* selected, that group is collapsed and a node is expanded.
C29_Witness ==
    /\ lastOp.op = "clearCategorySelection"
    /\ ~filterCategories[lastOp.cat].collapsed
    /\ \E d \in Categories \ {lastOp.cat} :
          /\ filterCategories[d].collapsed
          /\ \E node \in NodesOfCategory(filterCategories[d]) : node.selected
    /\ \E name \in DOMAIN expandedNodes : expandedNodes[name] # {}

-----------------------------------------------------------------------------
(* The selection manager and the store *)

\* C30: in every state reached by updates, toggles and clears, the identities
\* the selection manager holds (none initially and after a clear) are the
\* identities of the nodes whose selected flag is true; after a rebuild, which
\* resets the flags, it holds none.
C30_ExternalSelectionConsistent ==
    selectionManager.ids = SelectedIdentities(Categories)

-----------------------------------------------------------------------------
(* Properties of the group names *)

\* C31: after a rebuild no two groups of the store have the same name, whatever
\* the field list (two standalone fields with equal display names, a hierarchy
\* whose name is that of a standalone field), so that nothing keyed by the name
\* stands for two groups.
C31_GroupNamesUnique ==
    Rebuilt =>
        \A c, d \in Categories :
            c # d => filterCategories[c].name # filterCategories[d].name

-----------------------------------------------------------------------------
(* Properties of the attachment of the nodes *)

\* The rows the link pass looks up in hierarchy c find their nodes: at every
\* pair of adjacent levels the keys of the row are keys of the two levels.
NoLookupMiss(c) ==
    \A r \in 1..Len(Fields[ColumnOfLevel(c, 1)].values) :
        \A l \in 1..(Len(LevelsOf(c)) - 1) :
            /\ KeyAt(ColumnOfLevel(c, l), r) \in KeysOfLevel(LevelsOf(c), l)
            /\ KeyAt(ColumnOfLevel(c, l + 1), r) \in KeysOfLevel(LevelsOf(c), l + 1)

\* C32: after rebuilding a hierarchy from any input, level columns of unequal
\* length included, every node below the first level has a parent key that names
\* a node of the level above whose children contain it, every node hangs,
\* through children, from a first-level node, and the link pass misses no lookup.
C32_EveryNodeAttached ==
    Rebuilt =>
        \A c \in Hierarchies :
            /\ \A l \in 2..Len(LevelsOf(c)) :
                  \A i \in 1..Len(LevelsOf(c)[l].values) :
                      LET node == LevelsOf(c)[l].values[i]
                      IN  /\ Truthy(node.parentValue)
                          /\ node.parentValue[1] \in KeysOfLevel(LevelsOf(c), l - 1)
                          /\ node.value \in Range(ChildKeys(c, l - 1, node.parentValue[1]))
                          /\ Attached(LevelsOf(c), l - 1, node.value)
            /\ NoLookupMiss(c)

====
